---- MODULE Spec2Model ----
(***************************************************************************)
(* OEE Copilot: the chat edge functions (oee-chat and its variants), the   *)
(* useChat client that calls them, and the equipment-metrics aggregation.  *)
(*                                                                         *)
(* Spec     : one request at a time through an edge-function handler; each *)
(*            action runs the handler from the resumption of one await to  *)
(*            the issue of the next one, so an I/O operation is in flight  *)
(*            between its "start" and its "end" entry of ioLog.            *)
(* SpecAgg  : the aggregation functions applied to bounded row sets.       *)
(*                                                                         *)
(* Strings the code only tests with includes() are sequences of words;     *)
(* includes() is contiguous-subsequence match on the lowercased words.     *)
(***************************************************************************)
EXTENDS Integers, Sequences, FiniteSets, TLC

\* ------------------------------------------------------------------ bounds
MaxRequests == 1      \* requests served in one behaviour
MaxTableRows == 1     \* rows of equipment_status_logs in the handler model
MaxAggRows == 2       \* rows of a row set handed to the aggregation
MaxEquipment == 6     \* distinct equipment of a one-row-per-equipment row set
MaxReasonRows == 3    \* rows of a row set drawn for the failure breakdown
MaxFileRows == 2      \* rows of a small file handed to the import
MaxBatches == 2       \* insert batches of the largest file handed to the import
MaxUploads == 2       \* uploads through one DataImport dialog
MaxCalls == 2         \* sendMessage invocations of one useChat instance

\* ------------------------------------------------------- program constants
AiFetchLimit == 50
AnalyticsFetchLimit == 100
MinKeyLength == 20
RankingLimit == 5
TopCausesLimit == 5
BatchSize == 100
PreviewLimit == 5

\* ------------------------------------------------------------------ values
Variants == {"chat", "debug", "langchain", "intel"}

\* an API credential: set = FALSE is undefined; len = 0 is the empty string
NoKey == [set |-> FALSE, prefix |-> "", len |-> 0]
Keys == {NoKey,
         [set |-> TRUE, prefix |-> "", len |-> 0],
         [set |-> TRUE, prefix |-> "sk-", len |-> 20],
         [set |-> TRUE, prefix |-> "sk-", len |-> 21],
         [set |-> TRUE, prefix |-> "pk-", len |-> 30]}

NoMessage == <<>>                      \* body without `message`
Messages == {<<"Hello">>, <<"Show", "me", "availability">>}
NoSession == ""                        \* body without `sessionId`
Sessions == {"s1"}

Names == {"Machine A", "Machine B"}
Statuses == {"Running", "down", "Idle"}
Null == -1                             \* a missing duration_minutes
Durations == {Null, 0, 20, 100}

Row(n, s, d, r) ==
  [equipment_name |-> n, status |-> s, duration_minutes |-> d, reason |-> r]
HandlerRows == {Row("Machine A", "Running", 100, ""),
                Row("Machine B", "down", 20, "Belt")}
AggRows == {Row(n, s, d, "") : n \in Names, s \in Statuses, d \in Durations}

\* row sets with one row for each of the first n equipment
EquipmentNames == <<"Machine A", "Machine B", "Machine C", "Machine D",
                    "Machine E", "Machine F", "Machine G", "Machine H">>
WideProfiles == {[status |-> "Running", duration_minutes |-> 100],
                 [status |-> "down", duration_minutes |-> 20]}
WideRowSets ==
  UNION {{[i \in 1..n |-> Row(EquipmentNames[i], f[i].status,
                              f[i].duration_minutes, "")] :
            f \in [1..n -> WideProfiles]} : n \in 3..MaxEquipment}

\* rows of one equipment with the reasons the breakdown tells apart: a missing
\* reason, the "-" the import preview shows for one, and two real reasons
Reasons == {"", "-", "Belt", "Motor"}
ReasonRows == {Row("Machine A", "down", d, r) : d \in {0, 20}, r \in Reasons}
                \cup {Row("Machine A", "Running", 20, "Belt")}

\* statuses the aggregation does not know, one row each
OtherStatusRowSets ==
  {<<Row("Machine A", s, 20, "")>> : s \in {"inactive", "Active", "maintenance"}}

\* Machine A running 100 minutes and down 20 minutes for 'Belt'
ScenarioA == <<Row("Machine A", "running", 100, ""),
               Row("Machine A", "down", 20, "Belt")>>

\* Machine A 90% and Machine B 60% available
ScenarioC == <<Row("Machine A", "Running", 90, ""), Row("Machine A", "down", 10, "Belt"),
               Row("Machine B", "Running", 60, ""), Row("Machine B", "down", 40, "Motor")>>

RECURSIVE SeqsUpTo(_, _)
SeqsUpTo(S, n) == IF n = 0 THEN {<<>>}
                  ELSE LET shorter == SeqsUpTo(S, n - 1)
                       IN shorter \cup {Append(q, x) : q \in shorter, x \in S}

\* slice(0, n) and .limit(n)
Take(s, n) == IF Len(s) <= n THEN s ELSE SubSeq(s, 1, n)

\* ------------------------------------------------------------ string model
toLowerCase(w) ==
  CASE w = "Show" -> "show"
    [] w = "Hello" -> "hello"
    [] w = "Running" -> "running"
    [] w = "Down" -> "down"
    [] w = "Idle" -> "idle"
    [] w = "Active" -> "active"
    [] w = "Pareto" -> "pareto"
    [] OTHER -> w

LowerWords(m) == [i \in 1..Len(m) |-> toLowerCase(m[i])]

includes(m, kw) ==
  \E i \in 1..Len(m) :
     /\ i + Len(kw) - 1 <= Len(m)
     /\ \A j \in 1..Len(kw) : m[i + j - 1] = kw[j]

chartKeywords ==
  {<<"chart">>, <<"graph">>, <<"plot">>, <<"visualize">>, <<"show", "me">>,
   <<"display">>, <<"bar", "chart">>, <<"line", "chart">>, <<"pie", "chart">>,
   <<"trend">>, <<"comparison">>, <<"pareto">>, <<"histogram">>, <<"visual">>,
   <<"analytics">>}

detectChartRequest(message) ==
  \E keyword \in chartKeywords : includes(LowerWords(message), keyword)

\* the key check without its length test
KeyValid_NoLength(k) == k.set /\ k.len > 0 /\ k.prefix = "sk-"

\* apiKey && apiKey.startsWith('sk-') && apiKey.length > 20
KeyValid(k) == k.set /\ k.len > 0 /\ k.prefix = "sk-" /\ k.len > MinKeyLength

\* ------------------------------------------------------------- aggregation
Minutes(log) == IF log.duration_minutes = Null THEN 0 ELSE log.duration_minutes

RECURSIVE SumMinutes(_)
SumMinutes(logs) ==
  IF logs = <<>> THEN 0 ELSE Minutes(Head(logs)) + SumMinutes(Tail(logs))

IsDown(log) == toLowerCase(log.status) = "down"
\* the status compared without lowercasing it
IsRunning_CaseSensitive(log) == log.status = "running"

IsRunning(log) == toLowerCase(log.status) = "running"

downLogs(equipmentData) == SelectSeq(equipmentData, IsDown)
runningLogs(equipmentData) == SelectSeq(equipmentData, IsRunning)
totalDowntime(equipmentData) == SumMinutes(downLogs(equipmentData))
totalRuntime(equipmentData) == SumMinutes(runningLogs(equipmentData))

\* a number: the fraction 100 * num / den, or NaN
Pct(num, den) == [nan |-> FALSE, num |-> 100 * num, den |-> den]
Zero == [nan |-> FALSE, num |-> 0, den |-> 1]
NaN == [nan |-> TRUE, num |-> 0, den |-> 1]

\* toFixed(1) of a number that is not negative, in tenths, rounded upwards
toFixed1_RoundedUp(x) == (10 * x.num + x.den - 1) \div x.den

\* toFixed(1) of a number that is not negative, in tenths: 83.33 is 833
toFixed1(x) == (20 * x.num + x.den) \div (2 * x.den)

\* runtime + downtime > 0 ? runtime / (runtime + downtime) * 100 : 0
GuardedAvailability(runtime, downtime) ==
  IF runtime + downtime > 0 THEN Pct(runtime, runtime + downtime) ELSE Zero

\* runtime / (runtime + downtime) * 100 ; 0 / 0 is NaN
UnguardedAvailability(runtime, downtime) ==
  IF runtime + downtime = 0 THEN NaN ELSE Pct(runtime, runtime + downtime)

EquipLogs(equipmentData, name) ==
  SelectSeq(equipmentData, LAMBDA log : log.equipment_name = name)

RECURSIVE Unique(_, _)
Unique(s, seen) ==
  IF s = <<>> THEN <<>>
  ELSE IF Head(s) \in seen THEN Unique(Tail(s), seen)
       ELSE <<Head(s)>> \o Unique(Tail(s), seen \cup {Head(s)})

uniqueEquipment(equipmentData) ==
  Unique([i \in 1..Len(equipmentData) |-> equipmentData[i].equipment_name], {})

\* a.availability - b.availability: -1, 0 or 1; NaN compares as 0
Compare(a, b) ==
  IF a.nan \/ b.nan THEN 0
  ELSE IF a.num * b.den < b.num * a.den THEN -1
  ELSE IF a.num * b.den > b.num * a.den THEN 1
  ELSE 0

\* Array.prototype.sort is stable: insert each element after the last element
\* that does not compare greater (asc) or smaller (desc) than it
RECURSIVE Insert(_, _, _)
Insert(sorted, e, asc) ==
  IF sorted = <<>> THEN <<e>>
  ELSE LET last == sorted[Len(sorted)]
           c == Compare(last.availability, e.availability)
       IN IF (asc /\ c <= 0) \/ (~asc /\ c >= 0)
            THEN Append(sorted, e)
            ELSE Append(Insert(SubSeq(sorted, 1, Len(sorted) - 1), e, asc), last)

\* the ranking left in the order of the map
SortByAvailability_NoSort(s, asc) == s

RECURSIVE SortByAvailability(_, _)
SortByAvailability(s, asc) ==
  IF s = <<>> THEN <<>>
  ELSE Insert(SortByAvailability(SubSeq(s, 1, Len(s) - 1), asc), s[Len(s)], asc)

\* the record the per-equipment map callbacks build
EquipmentEntry(data, name, Availability(_, _)) ==
  LET equipLogs == EquipLogs(data, name)
      equipDowntime == totalDowntime(equipLogs)
      equipRuntime == totalRuntime(equipLogs)
  IN [name |-> name,
      availability |-> Availability(equipRuntime, equipDowntime),
      downtime |-> equipDowntime,
      runtime |-> equipRuntime,
      incidents |-> Len(downLogs(equipLogs))]

MapEquipment(data, names, Availability(_, _)) ==
  [i \in 1..Len(names) |-> EquipmentEntry(data, names[i], Availability)]

\* generateAnalyticsResponse: slice(0, 5), map, sort ascending
equipmentAnalysis(data) ==
  SortByAvailability(
    MapEquipment(data, Take(uniqueEquipment(data), RankingLimit),
                 GuardedAvailability), TRUE)

\* generateBasicChart: one availability per unique equipment, unsorted
availabilityData(data) ==
  MapEquipment(data, uniqueEquipment(data), GuardedAvailability)

\* generateIntelligentResponse: map, sort descending
equipmentAvailability(data) ==
  SortByAvailability(
    MapEquipment(data, uniqueEquipment(data), GuardedAvailability), FALSE)

\* the client-side generateAIResponse divides without a guard
clientEquipmentAvailability(data) ==
  MapEquipment(data, uniqueEquipment(data), UnguardedAvailability)

\* ------------------------------------------------------------------- state
VARIABLES
  variant,        \* which handler source serves the requests
  envKey,         \* Deno.env.get('OPENAI_API_KEY')
  table,          \* equipment_status_logs, most recent first
  chat_messages,  \* the chat_messages table, in insertion order
  nreq,           \* requests received so far
  pc,             \* position of the handler
  body,           \* the parsed request body
  isChartRequest,
  equipmentData,  \* result of the handler's latest equipment read
  response,       \* {text, chart} computed by the handler
  ioLog,          \* I/O events of the current request, in order
  httpResponse,   \* what the handler returned
  aiResponse,     \* what generateLangChainResponse returned to sendMessage
  messages,       \* what the client renders (loaded from chat_messages)
  aggRows,        \* SpecAgg: the row set
  aggOut,         \* SpecAgg: the result of the aggregation applied last
  importer,       \* which DataImport component is mounted
  file,           \* the file the user picks
  uploadStatus,   \* DataImport state: 'idle' | 'processing' | 'success' | 'error'
  errorMessage,   \* DataImport state
  previewData,    \* DataImport state
  equipmentLogs,  \* the rows handed to importToDatabase
  cursor,         \* importToDatabase: the loop variable i
  importPc,       \* where the upload handler is suspended
  importLog,      \* the uploads, their store operations and the results
  equipment,      \* the equipment table (names)
  chat_sessions,  \* the chat_sessions table (ids)
  sessions,       \* useChat state
  currentSession, \* useChat state
  isLoading,      \* useChat state
  messageCharts,  \* useChat state: message id -> chart
  calls,          \* the sendMessage invocations, each with its closure
  invocations     \* the requests sent to the edge function

vars == <<variant, envKey, table, chat_messages, nreq, pc, body,
          isChartRequest, equipmentData, response, ioLog, httpResponse,
          aiResponse, messages, aggRows, aggOut,
          importer, file, uploadStatus, errorMessage, previewData, equipmentLogs,
          cursor, importPc, importLog, equipment,
          chat_sessions, sessions, currentSession, isLoading, messageCharts,
          calls, invocations>>

handlerVars == <<variant, envKey, table, chat_messages, nreq, pc, body,
                 isChartRequest, equipmentData, response, ioLog,
                 httpResponse, aiResponse, messages>>
aggVars == <<aggRows, aggOut>>
importVars == <<importer, file, uploadStatus, errorMessage, previewData, equipmentLogs,
                cursor, importPc, importLog, equipment>>
clientVars == <<chat_sessions, sessions, currentSession, isLoading,
                messageCharts, calls, invocations>>
\* what a handler of the edge function never touches
otherVars == <<aggVars, importVars, clientVars>>

\* ------------------------------------------------------------ value shapes
Text(tpl, err, data, msg) == [tpl |-> tpl, err |-> err, data |-> data, msg |-> msg]
NoText == Text("none", "", <<>>, <<>>)
\* a ChartData: labels and the data of datasets[0]
Chart(type, title, labels, data) ==
  [type |-> type, title |-> title, labels |-> labels, data |-> data]
NoChart == Chart("none", "", <<>>, <<>>)       \* chart: undefined
NoData == [ok |-> FALSE, rows |-> <<>>]       \* data: null
NoBody == [message |-> NoMessage, sessionId |-> NoSession, openaiApiKey |-> NoKey]
NoResponse == [text |-> NoText, chart |-> NoChart]
NoHttp == [status |-> 0, response |-> NoText, chart |-> NoChart,
           error |-> "", details |-> "", debug |-> ""]

\* an ioLog entry; res is the outcome on an "end" entry
Ev(op, ev, res) == [op |-> op, ev |-> ev, res |-> res]

\* the JSON payloads: details and debug.error carry error.message
Http500(error, details) ==
  [status |-> 500, response |-> NoText, chart |-> NoChart,
   error |-> error, details |-> details, debug |-> ""]
Http200(r) ==
  [status |-> 200, response |-> r.text, chart |-> r.chart,
   error |-> "", details |-> "", debug |-> ""]

\* a chat_messages row; `by` stands for the row's id and timestamp: it tells
\* which request inserted the row
Msg(sessionId, role, content) ==
  [session_id |-> sessionId, role |-> role, content |-> content, by |-> nreq]
UserText(message) == Text("user", "", <<>>, message)

\* ------------------------------------------------------------------- store
\* an insert into chat_messages: content is NOT NULL, and any insert can be
\* refused (row-level security, connectivity); TRUE is "no error"
InsertResults(rows) ==
  IF \E i \in 1..Len(rows) : rows[i].content.msg = NoMessage /\ rows[i].role = "user"
    THEN {FALSE} ELSE BOOLEAN

\* a select on equipment_status_logs: {data, error} with data null on error
ReadResults(limit) == {NoData, [ok |-> TRUE, rows |-> Take(table, limit)]}

\* ------------------------------------------------- chat-completion endpoint
LlmFailures == {"throws", "non2xx", "malformed", "nocontent"}
LlmOutcomes ==
  {[kind |-> k, sugType |-> "", sugTitle |-> <<>>] : k \in LlmFailures \cup {"ok"}}
  \cup {[kind |-> "ok", sugType |-> "pie", sugTitle |-> <<"downtime", "causes">>]}

\* error.message of what the failed call throws
LlmErrorMessage(kind) ==
  CASE kind = "throws" -> "fetch failed"
    [] kind = "non2xx" -> "OpenAI API Error"
    [] kind = "malformed" -> "TypeError"
    [] OTHER -> "No response from OpenAI"

\* ---------------------------------------------------- response synthesizer
HasAny(lowerQuery, words) == \E w \in words : includes(lowerQuery, <<w>>)

\* the reason counted whatever the status of the row
HasReason_AnyStatus(log) == log.reason # ""

\* rows counted by the Pareto chart: down rows with a truthy reason
HasReason(log) == IsDown(log) /\ log.reason # ""

\* an integer as a number
Num(n) == [nan |-> FALSE, num |-> n, den |-> 1]

\* num / den * 100 without a guard: 0 / 0 is NaN
UnguardedPct(num, den) == IF den = 0 THEN NaN ELSE Pct(num, den)

\* acc[key] = (acc[key] || 0) + amount; Object.keys and Object.entries list
\* the keys in insertion order
Bump(acc, key, amount) ==
  IF \E i \in 1..Len(acc) : acc[i].label = key
    THEN [i \in 1..Len(acc) |->
            IF acc[i].label = key THEN [acc[i] EXCEPT !.value = @ + amount]
                                  ELSE acc[i]]
    ELSE Append(acc, [label |-> key, value |-> amount])

\* generateBasicChart: occurrences per reason over down rows with a reason
RECURSIVE reasonCountsFrom(_, _)
reasonCountsFrom(logs, acc) ==
  IF logs = <<>> THEN acc
  ELSE reasonCountsFrom(Tail(logs),
         IF HasReason(Head(logs)) THEN Bump(acc, Head(logs).reason, 1) ELSE acc)

reasonCounts(data) == reasonCountsFrom(data, <<>>)

\* generateIntelligentResponse: minutes per reason over down rows, a missing
\* reason under 'Unknown'
RECURSIVE downtimeByReasonFrom(_, _)
downtimeByReasonFrom(logs, acc) ==
  IF logs = <<>> THEN acc
  ELSE LET log == Head(logs)
           reason == IF log.reason = "" THEN "Unknown" ELSE log.reason
       IN downtimeByReasonFrom(Tail(logs), Bump(acc, reason, Minutes(log)))

downtimeByReason(data) == downtimeByReasonFrom(downLogs(data), <<>>)

\* sort((a, b) => b.value - a.value), stable
RECURSIVE InsertByValue(_, _)
InsertByValue(sorted, e) ==
  IF sorted = <<>> THEN <<e>>
  ELSE LET last == sorted[Len(sorted)]
       IN IF last.value >= e.value
            THEN Append(sorted, e)
            ELSE Append(InsertByValue(SubSeq(sorted, 1, Len(sorted) - 1), e), last)

\* the entries left in insertion order
SortByValueDesc_NoSort(s) == s

RECURSIVE SortByValueDesc(_)
SortByValueDesc(s) ==
  IF s = <<>> THEN <<>>
  ELSE InsertByValue(SortByValueDesc(SubSeq(s, 1, Len(s) - 1)), s[Len(s)])

sortedDowntime(data) == Take(SortByValueDesc(downtimeByReason(data)), TopCausesLimit)

\* the percentage printed next to each of the top downtime causes
downtimeShares(data) ==
  LET top == sortedDowntime(data)
  IN [i \in 1..Len(top) |-> UnguardedPct(top[i].value, totalDowntime(data))]

\* downtime by equipment: one sum of down minutes per unique equipment
downtimeData(data) ==
  LET names == uniqueEquipment(data)
  IN [i \in 1..Len(names) |-> totalDowntime(EquipLogs(data, names[i]))]

Labels(entries) == [i \in 1..Len(entries) |-> entries[i].label]
Values(entries) == [i \in 1..Len(entries) |-> Num(entries[i].value)]

\* the chart of the 'Failure Reasons Pareto Chart' branch
ParetoChart(data) ==
  IF reasonCounts(data) = <<>>
    THEN Chart("bar", "No Failure Reasons Available", <<"No Data">>, <<Num(0)>>)
    ELSE Chart("pareto", "Failure Reasons Analysis (Pareto Chart)",
               Labels(reasonCounts(data)), Values(reasonCounts(data)))

\* the chart of the availability branch and of the default
AvailabilityChart(type, data) ==
  Chart(type, "Equipment Availability (%)", uniqueEquipment(data),
        [i \in 1..Len(availabilityData(data)) |->
           availabilityData(data)[i].availability])

\* the reason branch tested before the availability branch
generateBasicChart_ParetoFirst(query, data, given) ==
  IF data = <<>> THEN NoChart
  ELSE IF HasAny(LowerWords(query), {"reason", "cause", "pareto"})
    THEN ParetoChart(data)
  ELSE AvailabilityChart("bar", data)

generateBasicChart(query, data, given) ==
  IF data = <<>> THEN NoChart
  ELSE
    LET lowerQuery == LowerWords(query)
        chartType ==
          IF given # "" THEN given
          ELSE IF HasAny(lowerQuery, {"trend", "time", "over"}) THEN "line"
          ELSE IF HasAny(lowerQuery, {"pie", "breakdown", "distribution"}) THEN "pie"
          ELSE IF HasAny(lowerQuery, {"pareto", "cause", "reason"}) THEN "pareto"
          ELSE "bar"
    IN IF HasAny(lowerQuery, {"availability", "uptime"})
         THEN AvailabilityChart(IF chartType = "line" THEN "line" ELSE "bar", data)
       ELSE IF /\ HasAny(lowerQuery, {"downtime"})
               /\ HasAny(lowerQuery, {"equipment", "machine"})
         THEN Chart(IF chartType = "pie" THEN "pie" ELSE "bar",
                    "Total Downtime by Equipment (minutes)",
                    uniqueEquipment(data),
                    [i \in 1..Len(downtimeData(data)) |-> Num(downtimeData(data)[i])])
       ELSE IF HasAny(lowerQuery, {"reason", "cause", "pareto"})
         THEN ParetoChart(data)
       ELSE AvailabilityChart("bar", data)

generateChartFromResponse(content, data) ==
  IF content.sugType = ""
    THEN generateBasicChart(<<"equipment", "availability">>, data, "")
    ELSE generateBasicChart(content.sugTitle, data, content.sugType)

\* the chart built whether or not the message asked for one
AIResult_AlwaysChart(content, fetched, shouldGenerateChart) ==
  [text |-> Text("ai", "", fetched.rows, <<>>),
   chart |-> IF fetched.ok /\ fetched.rows # <<>>
               THEN generateChartFromResponse(content, fetched.rows)
               ELSE NoChart]

\* what generateAIResponse returns once the endpoint has answered with content
AIResult(content, fetched, shouldGenerateChart) ==
  [text |-> Text("ai", "", fetched.rows, <<>>),
   chart |-> IF shouldGenerateChart /\ fetched.ok /\ fetched.rows # <<>>
               THEN generateChartFromResponse(content, fetched.rows)
               ELSE NoChart]

\* the no-data branch answering with nothing
generateAnalyticsResponse_NoDataUnanswered(message, fetched, shouldGenerateChart) ==
  IF ~fetched.ok \/ fetched.rows = <<>>
    THEN [text |-> NoText, chart |-> NoChart]
    ELSE [text |-> Text("analytics", "", fetched.rows, message),
          chart |-> IF shouldGenerateChart
                      THEN generateBasicChart(message, fetched.rows, "")
                      ELSE NoChart]

\* generateAnalyticsResponse after its own read of equipment_status_logs
generateAnalyticsResponse(message, fetched, shouldGenerateChart) ==
  IF ~fetched.ok \/ fetched.rows = <<>>
    THEN [text |-> Text("nodata", "", <<>>, <<>>), chart |-> NoChart]
    ELSE [text |-> Text("analytics", "", fetched.rows, message),
          chart |-> IF shouldGenerateChart
                      THEN generateBasicChart(message, fetched.rows, "")
                      ELSE NoChart]

\* -------------------------------------------------------------------- Init
NoAiResponse == [isObject |-> FALSE, text |-> NoText, chart |-> NoChart]

\* the Chart component, pareto type: entries sorted by value, descending, and
\* the cumulative percentages of the overlay line
NoRender == [labels |-> <<>>, values |-> <<>>, cumulative |-> <<>>]

RECURSIVE SumValues(_)
SumValues(entries) ==
  IF entries = <<>> THEN 0 ELSE Head(entries).value + SumValues(Tail(entries))

ParetoRender(chart) ==
  LET sortedData ==
        SortByValueDesc([i \in 1..Len(chart.labels) |->
                           [label |-> chart.labels[i], value |-> chart.data[i].num]])
      total == SumValues(sortedData)
  IN [labels |-> Labels(sortedData),
      values |-> Values(sortedData),
      cumulative |-> [i \in 1..Len(sortedData) |->
                        UnguardedPct(SumValues(SubSeq(sortedData, 1, i)), total)]]

\* what an aggregation leaves: the metrics, ranking, breakdown and chart it
\* computed and every ratio it evaluated
NoAgg == [fn |-> "none", query |-> <<>>, tpl |-> "none",
          totalLogs |-> 0, totalDowntime |-> 0, totalRuntime |-> 0,
          overall |-> <<>>, perEquip |-> <<>>, priority |-> <<>>,
          buckets |-> <<>>, ratios |-> <<>>,
          chart |-> NoChart, rendered |-> NoRender]
InitAggIdle == aggRows = <<>> /\ aggOut = NoAgg

InitHandler ==
  /\ variant \in Variants
  /\ envKey \in Keys
  /\ table \in SeqsUpTo(HandlerRows, MaxTableRows)
  /\ chat_messages = <<>>
  /\ nreq = 0
  /\ pc = "idle"
  /\ body = NoBody
  /\ isChartRequest = FALSE
  /\ equipmentData = NoData
  /\ response = NoResponse
  /\ ioLog = <<>>
  /\ httpResponse = NoHttp
  /\ aiResponse = NoAiResponse
  /\ messages = <<>>

\* no file picked, the upload dialog idle
NoFile == [accepted |-> FALSE, rows |-> <<>>]
InitImportIdle ==
  /\ importer = "sidebar"
  /\ file = NoFile
  /\ uploadStatus = "idle"
  /\ errorMessage = ""
  /\ previewData = <<>>
  /\ equipmentLogs = <<>>
  /\ cursor = 0
  /\ importPc = "idle"
  /\ importLog = <<>>
  /\ equipment = <<>>

\* useChat as mounted: useState's initial values, no call made
InitClientIdle ==
  /\ chat_sessions = <<>>
  /\ sessions = <<>>
  /\ currentSession = NoSession
  /\ isLoading = FALSE
  /\ messageCharts = <<>>
  /\ calls = <<>>
  /\ invocations = <<>>

Init == InitHandler /\ InitAggIdle /\ InitImportIdle /\ InitClientIdle

\* request bodies a caller can post
Bodies ==
  [message : Messages \cup {NoMessage},
   sessionId : Sessions \cup {NoSession},
   openaiApiKey : {NoKey}]

\* the handler returns: nothing is in flight any more
Return(http) ==
  /\ httpResponse' = http
  /\ pc' = "responded"

Start(log, op) == Append(log, Ev(op, "start", ""))
End(log, op, res) == Append(log, Ev(op, "end", res))

\* a missing await: the next operation is issued while the first is pending
AwaitThen_NoAwait(log, op, res, next) == End(Start(log, next), op, res)

\* `await a; b(...)`: the awaited operation ends, then the next is issued
AwaitThen(log, op, res, next) == Start(End(log, op, res), next)

StoreRes(ok) == IF ok THEN "ok" ELSE "error"

\* locals of the previous request are gone when a request arrives
NewRequest ==
  /\ nreq' = nreq + 1
  /\ isChartRequest' = FALSE
  /\ equipmentData' = NoData
  /\ response' = NoResponse
  /\ aiResponse' = NoAiResponse

UserRow == Msg(body.sessionId, "user", UserText(body.message))
AssistantRow == Msg(body.sessionId, "assistant", response.text)

\* the insert's error ignored, as for the assistant insert
UserInsertFatal_Ignored(ok) == FALSE

\* if (userMsgError) throw new Error('Failed to save user message')
UserInsertFatal(ok) == ~ok

\* ------------------------------------------------ oee-chat (first handler)
\* req.json(), the log line that reads message.substring, the user insert
ChatReceive ==
  /\ variant = "chat" /\ pc = "idle" /\ nreq < MaxRequests
  /\ \E b \in Bodies :
       /\ body' = b
       /\ IF b.message = NoMessage
            THEN /\ Return(Http500("Function execution failed", "TypeError"))
                 /\ ioLog' = <<>>
            ELSE /\ pc' = "awaitUserInsert"
                 /\ ioLog' = Start(<<>>, "insertUser")
                 /\ httpResponse' = NoHttp
  /\ NewRequest
  /\ UNCHANGED <<variant, envKey, table, chat_messages, messages, otherVars>>

\* the user insert resolves; key check; the first equipment read is issued
ChatUserInsertDone ==
  /\ variant = "chat" /\ pc = "awaitUserInsert"
  /\ \E ok \in InsertResults(<<UserRow>>) :
       /\ chat_messages' = IF ok THEN Append(chat_messages, UserRow)
                                 ELSE chat_messages
       /\ IF UserInsertFatal(ok)
            THEN /\ Return(Http500("Function execution failed",
                                   "Failed to save user message"))
                 /\ ioLog' = End(ioLog, "insertUser", StoreRes(ok))
                 /\ UNCHANGED isChartRequest
            ELSE /\ isChartRequest' = detectChartRequest(body.message)
                 /\ ioLog' = AwaitThen(ioLog, "insertUser", StoreRes(ok),
                                       "readEquipment")
                 /\ pc' = IF KeyValid(envKey) THEN "awaitAiRead"
                                              ELSE "awaitAnalyticsRead"
                 /\ UNCHANGED httpResponse
  /\ UNCHANGED <<variant, envKey, table, nreq, body, equipmentData, response,
                 aiResponse, messages, otherVars>>

\* generateAIResponse: the read resolves, the prompt is built, fetch is issued
ChatAiReadDone ==
  /\ variant = "chat" /\ pc = "awaitAiRead"
  /\ \E r \in ReadResults(AiFetchLimit) :
       /\ equipmentData' = r
       /\ ioLog' = AwaitThen(ioLog, "readEquipment", StoreRes(r.ok),
                             "chatCompletion")
  /\ pc' = "awaitLlm"
  /\ UNCHANGED <<variant, envKey, table, chat_messages, nreq, body,
                 isChartRequest, response, httpResponse, aiResponse, messages,
                 otherVars>>

\* the endpoint answers or fails; on failure the catch falls through to the
\* analytics fallback, which issues its own read
ChatLlmDone ==
  /\ variant = "chat" /\ pc = "awaitLlm"
  /\ \E out \in LlmOutcomes :
       IF out.kind = "ok"
         THEN /\ response' = AIResult(out, equipmentData, isChartRequest)
              /\ ioLog' = AwaitThen(ioLog, "chatCompletion", out.kind,
                                    "insertAssistant")
              /\ pc' = "awaitAsstInsert"
         ELSE /\ response' = response
              /\ ioLog' = AwaitThen(ioLog, "chatCompletion", out.kind,
                                    "readEquipment")
              /\ pc' = "awaitAnalyticsRead"
  /\ UNCHANGED <<variant, envKey, table, chat_messages, nreq, body,
                 isChartRequest, equipmentData, httpResponse, aiResponse,
                 messages, otherVars>>

\* the fallback drawing its chart from the rows generateAIResponse had read
ChatAnalyticsReadDone_FirstSnapshot ==
  /\ variant = "chat" /\ pc = "awaitAnalyticsRead"
  /\ \E r \in ReadResults(AnalyticsFetchLimit) :
       /\ equipmentData' = r
       /\ response' =
            [text |-> generateAnalyticsResponse(body.message, r, isChartRequest).text,
             chart |-> generateAnalyticsResponse(body.message, equipmentData,
                                                 isChartRequest).chart]
       /\ ioLog' = AwaitThen(ioLog, "readEquipment", StoreRes(r.ok),
                             "insertAssistant")
  /\ pc' = "awaitAsstInsert"
  /\ UNCHANGED <<variant, envKey, table, chat_messages, nreq, body,
                 isChartRequest, httpResponse, aiResponse, messages, otherVars>>

\* generateAnalyticsResponse: its read resolves, the text is rendered, the
\* assistant insert is issued
ChatAnalyticsReadDone ==
  /\ variant = "chat" /\ pc = "awaitAnalyticsRead"
  /\ \E r \in ReadResults(AnalyticsFetchLimit) :
       /\ equipmentData' = r
       /\ response' = generateAnalyticsResponse(body.message, r, isChartRequest)
       /\ ioLog' = AwaitThen(ioLog, "readEquipment", StoreRes(r.ok),
                             "insertAssistant")
  /\ pc' = "awaitAsstInsert"
  /\ UNCHANGED <<variant, envKey, table, chat_messages, nreq, body,
                 isChartRequest, httpResponse, aiResponse, messages, otherVars>>

\* the assistant insert resolves (its result is not looked at); 200
ChatAsstInsertDone ==
  /\ variant = "chat" /\ pc = "awaitAsstInsert"
  /\ \E ok \in InsertResults(<<AssistantRow>>) :
       /\ chat_messages' = IF ok THEN Append(chat_messages, AssistantRow)
                                 ELSE chat_messages
       /\ ioLog' = End(ioLog, "insertAssistant", StoreRes(ok))
  /\ Return(Http200(response))
  /\ UNCHANGED <<variant, envKey, table, nreq, body, isChartRequest,
                 equipmentData, response, aiResponse, messages, otherVars>>

\* ------------------------------------------------------- oee-chat-debug
DebugKeys == {NoKey, [set |-> TRUE, prefix |-> "sk-", len |-> 21]}
DebugBodies ==
  [message : Messages \cup {NoMessage},
   sessionId : Sessions \cup {NoSession},
   openaiApiKey : DebugKeys]

\* openaiApiKey || Deno.env.get('OPENAI_API_KEY')
DebugApiKey == IF body.openaiApiKey.set /\ body.openaiApiKey.len > 0
                 THEN body.openaiApiKey ELSE envKey

generateErrorResponse(message, error) ==
  [text |-> Text("debugError", error, <<>>, message), chart |-> NoChart]

generateIntelligentFallback(fetched) ==
  IF ~fetched.ok \/ fetched.rows = <<>>
    THEN [text |-> Text("fallbackNoData", "", <<>>, <<>>), chart |-> NoChart]
    ELSE [text |-> Text("fallbackAnalytics", "", fetched.rows, <<>>),
          chart |-> NoChart]

\* the 200 payload of the catch branch: debug.error is aiError.message
DebugHttp200(r) == [Http200(r) EXCEPT !.debug = r.text.err]

\* a connection test whose failure is swallowed
TestPassed_Always(kind) == TRUE

\* testOpenAIConnection throws on a rejected fetch, a non-2xx status or a
\* payload without choices; a missing content is 'Connection successful'
TestPassed(kind) == kind \notin {"throws", "non2xx", "malformed"}

DebugReceive ==
  /\ variant = "debug" /\ pc = "idle" /\ nreq < MaxRequests
  /\ \E b \in DebugBodies :
       /\ body' = b
       /\ IF b.message = NoMessage
            THEN /\ Return(Http500("Function execution error", "TypeError"))
                 /\ ioLog' = <<>>
            ELSE /\ pc' = "awaitUserInsert"
                 /\ ioLog' = Start(<<>>, "insertUser")
                 /\ httpResponse' = NoHttp
  /\ NewRequest
  /\ UNCHANGED <<variant, envKey, table, chat_messages, messages, otherVars>>

\* key check; a valid key starts testOpenAIConnection, else the fallback read
DebugUserInsertDone ==
  /\ variant = "debug" /\ pc = "awaitUserInsert"
  /\ \E ok \in InsertResults(<<UserRow>>) :
       /\ chat_messages' = IF ok THEN Append(chat_messages, UserRow)
                                 ELSE chat_messages
       /\ IF UserInsertFatal(ok)
            THEN /\ Return(Http500("Function execution error",
                                   "Failed to save user message"))
                 /\ ioLog' = End(ioLog, "insertUser", StoreRes(ok))
            ELSE /\ IF KeyValid(DebugApiKey)
                      THEN /\ ioLog' = AwaitThen(ioLog, "insertUser", StoreRes(ok),
                                                 "chatCompletion")
                           /\ pc' = "awaitTest"
                      ELSE /\ ioLog' = AwaitThen(ioLog, "insertUser", StoreRes(ok),
                                                 "readEquipment")
                           /\ pc' = "awaitFallbackRead"
                 /\ UNCHANGED httpResponse
  /\ UNCHANGED <<variant, envKey, table, nreq, body, isChartRequest,
                 equipmentData, response, aiResponse, messages, otherVars>>

\* testOpenAIConnection resolves; then the LangChain modules are imported
\* and the equipment read is issued; any throw goes to generateErrorResponse
DebugTestDone ==
  /\ variant = "debug" /\ pc = "awaitTest"
  /\ \E out \in LlmOutcomes, importOk \in BOOLEAN :
       IF ~TestPassed(out.kind) \/ ~importOk
         THEN /\ response' =
                   generateErrorResponse(body.message,
                     IF ~TestPassed(out.kind) THEN LlmErrorMessage(out.kind)
                                              ELSE "import failed")
              /\ ioLog' = AwaitThen(ioLog, "chatCompletion", out.kind,
                                    "insertAssistant")
              /\ pc' = "awaitAsstInsert"
         ELSE /\ response' = response
              /\ ioLog' = AwaitThen(ioLog, "chatCompletion", out.kind,
                                    "readEquipment")
              /\ pc' = "awaitAiRead"
  /\ UNCHANGED <<variant, envKey, table, chat_messages, nreq, body,
                 isChartRequest, equipmentData, httpResponse, aiResponse,
                 messages, otherVars>>

DebugAiReadDone ==
  /\ variant = "debug" /\ pc = "awaitAiRead"
  /\ \E r \in ReadResults(AiFetchLimit) :
       /\ equipmentData' = r
       /\ ioLog' = AwaitThen(ioLog, "readEquipment", StoreRes(r.ok),
                             "chatCompletion")
  /\ pc' = "awaitLlm"
  /\ UNCHANGED <<variant, envKey, table, chat_messages, nreq, body,
                 isChartRequest, response, httpResponse, aiResponse, messages,
                 otherVars>>

\* chain.invoke resolves or rejects; what the output parser does with a
\* completion without content is the library's choice
DebugLlmDone ==
  /\ variant = "debug" /\ pc = "awaitLlm"
  /\ \E out \in LlmOutcomes :
     \E failed \in (IF out.kind = "nocontent" THEN BOOLEAN ELSE {out.kind # "ok"}) :
       /\ response' =
            IF failed
              THEN generateErrorResponse(body.message, LlmErrorMessage(out.kind))
              ELSE [text |-> Text("ai", "", equipmentData.rows, <<>>),
                    chart |-> NoChart]
       /\ ioLog' = AwaitThen(ioLog, "chatCompletion", out.kind,
                             "insertAssistant")
  /\ pc' = "awaitAsstInsert"
  /\ UNCHANGED <<variant, envKey, table, chat_messages, nreq, body,
                 isChartRequest, equipmentData, httpResponse, aiResponse,
                 messages, otherVars>>

DebugFallbackReadDone ==
  /\ variant = "debug" /\ pc = "awaitFallbackRead"
  /\ \E r \in ReadResults(AnalyticsFetchLimit) :
       /\ equipmentData' = r
       /\ response' = generateIntelligentFallback(r)
       /\ ioLog' = AwaitThen(ioLog, "readEquipment", StoreRes(r.ok),
                             "insertAssistant")
  /\ pc' = "awaitAsstInsert"
  /\ UNCHANGED <<variant, envKey, table, chat_messages, nreq, body,
                 isChartRequest, httpResponse, aiResponse, messages, otherVars>>

DebugAsstInsertDone ==
  /\ variant = "debug" /\ pc = "awaitAsstInsert"
  /\ \E ok \in InsertResults(<<AssistantRow>>) :
       /\ chat_messages' = IF ok THEN Append(chat_messages, AssistantRow)
                                 ELSE chat_messages
       /\ ioLog' = End(ioLog, "insertAssistant", StoreRes(ok))
  /\ Return(DebugHttp200(response))
  /\ UNCHANGED <<variant, envKey, table, nreq, body, isChartRequest,
                 equipmentData, response, aiResponse, messages, otherVars>>

\* ------------------------------------- LangChain handler (reads come first)
LangchainReceive ==
  /\ variant = "langchain" /\ pc = "idle" /\ nreq < MaxRequests
  /\ \E b \in Bodies : body' = b
  /\ pc' = "awaitRead"
  /\ ioLog' = Start(<<>>, "readEquipment")
  /\ httpResponse' = NoHttp
  /\ NewRequest
  /\ UNCHANGED <<variant, envKey, table, chat_messages, messages, otherVars>>

LangchainReadDone ==
  /\ variant = "langchain" /\ pc = "awaitRead"
  /\ \E r \in ReadResults(AnalyticsFetchLimit) :
       /\ equipmentData' = r
       /\ ioLog' = AwaitThen(ioLog, "readEquipment", StoreRes(r.ok), "readOee")
  /\ pc' = "awaitOeeRead"
  /\ UNCHANGED <<variant, envKey, table, chat_messages, nreq, body,
                 isChartRequest, response, httpResponse, aiResponse, messages,
                 otherVars>>

\* the oee_data read resolves; new ChatOpenAI may refuse a missing key (the
\* library's choice); otherwise chain.invoke is issued
LangchainOeeReadDone ==
  /\ variant = "langchain" /\ pc = "awaitOeeRead"
  /\ \E ok \in BOOLEAN :
     \E refused \in (IF envKey.set /\ envKey.len > 0 THEN {FALSE} ELSE BOOLEAN) :
       IF refused
         THEN /\ Return(Http500("Failed to process chat request",
                                "OpenAI API key not found"))
              /\ ioLog' = End(ioLog, "readOee", StoreRes(ok))
         ELSE /\ ioLog' = AwaitThen(ioLog, "readOee", StoreRes(ok),
                                    "chatCompletion")
              /\ pc' = "awaitLlm"
              /\ UNCHANGED httpResponse
  /\ UNCHANGED <<variant, envKey, table, chat_messages, nreq, body,
                 isChartRequest, equipmentData, response, aiResponse, messages,
                 otherVars>>

\* chain.invoke: a rejection goes to the outer catch (500); otherwise both
\* messages are inserted by one insert call
LangchainLlmDone ==
  /\ variant = "langchain" /\ pc = "awaitLlm"
  /\ \E out \in LlmOutcomes :
     \E failed \in (IF out.kind = "nocontent" THEN BOOLEAN ELSE {out.kind # "ok"}) :
       IF failed
         THEN /\ Return(Http500("Failed to process chat request",
                                LlmErrorMessage(out.kind)))
              /\ ioLog' = End(ioLog, "chatCompletion", out.kind)
              /\ UNCHANGED response
         ELSE /\ response' = [text |-> Text("ai", "", equipmentData.rows, <<>>),
                              chart |-> NoChart]
              /\ ioLog' = AwaitThen(ioLog, "chatCompletion", out.kind,
                                    "insertBoth")
              /\ pc' = "awaitInsert"
              /\ UNCHANGED httpResponse
  /\ UNCHANGED <<variant, envKey, table, chat_messages, nreq, body,
                 isChartRequest, equipmentData, aiResponse, messages, otherVars>>

LangchainInsertDone ==
  /\ variant = "langchain" /\ pc = "awaitInsert"
  /\ \E ok \in InsertResults(<<UserRow, AssistantRow>>) :
       /\ chat_messages' = IF ok THEN chat_messages \o <<UserRow, AssistantRow>>
                                 ELSE chat_messages
       /\ ioLog' = End(ioLog, "insertBoth", StoreRes(ok))
  /\ Return(Http200(response))
  /\ UNCHANGED <<variant, envKey, table, nreq, body, isChartRequest,
                 equipmentData, response, aiResponse, messages, otherVars>>

\* --------------------------------- oee-chat, second handler (template only)
generateIntelligentResponse(userMessage, data) ==
  LET message == LowerWords(userMessage)
      tpl == IF HasAny(message, {"availability", "uptime"}) THEN "intelAvailability"
             ELSE IF HasAny(message, {"downtime", "issues", "problems"})
               THEN "intelDowntime"
             ELSE IF HasAny(message, {"oee", "performance"}) THEN "intelOee"
             ELSE "intelDefault"
  IN [text |-> Text(tpl, "", data, <<>>), chart |-> NoChart]

IntelReceive ==
  /\ variant = "intel" /\ pc = "idle" /\ nreq < MaxRequests
  /\ \E b \in Bodies : body' = b
  /\ pc' = "awaitUserInsert"
  /\ ioLog' = Start(<<>>, "insertUser")
  /\ httpResponse' = NoHttp
  /\ NewRequest
  /\ UNCHANGED <<variant, envKey, table, chat_messages, messages, otherVars>>

IntelUserInsertDone ==
  /\ variant = "intel" /\ pc = "awaitUserInsert"
  /\ \E ok \in InsertResults(<<UserRow>>) :
       /\ chat_messages' = IF ok THEN Append(chat_messages, UserRow)
                                 ELSE chat_messages
       /\ IF UserInsertFatal(ok)
            THEN /\ Return(Http500("Failed to process chat request",
                                   "Failed to save user message"))
                 /\ ioLog' = End(ioLog, "insertUser", StoreRes(ok))
            ELSE /\ ioLog' = AwaitThen(ioLog, "insertUser", StoreRes(ok),
                                       "readEquipment")
                 /\ pc' = "awaitRead"
                 /\ UNCHANGED httpResponse
  /\ UNCHANGED <<variant, envKey, table, nreq, body, isChartRequest,
                 equipmentData, response, aiResponse, messages, otherVars>>

\* equipError is only logged: the response is rendered from data || []
IntelReadDone ==
  /\ variant = "intel" /\ pc = "awaitRead"
  /\ \E r \in ReadResults(AiFetchLimit) :
       /\ equipmentData' = r
       /\ response' = generateIntelligentResponse(body.message, r.rows)
       /\ ioLog' = AwaitThen(ioLog, "readEquipment", StoreRes(r.ok),
                             "insertAssistant")
  /\ pc' = "awaitAsstInsert"
  /\ UNCHANGED <<variant, envKey, table, chat_messages, nreq, body,
                 isChartRequest, httpResponse, aiResponse, messages, otherVars>>

\* here the insert's error is checked: a refused insert is a 500
IntelAsstInsertDone ==
  /\ variant = "intel" /\ pc = "awaitAsstInsert"
  /\ \E ok \in InsertResults(<<AssistantRow>>) :
       /\ ioLog' = End(ioLog, "insertAssistant", StoreRes(ok))
       /\ IF ok
            THEN /\ chat_messages' = Append(chat_messages, AssistantRow)
                 /\ Return(Http200(response))
            ELSE /\ chat_messages' = chat_messages
                 /\ Return(Http500("Failed to process chat request",
                                   "Failed to save assistant message"))
  /\ UNCHANGED <<variant, envKey, table, nreq, body, isChartRequest,
                 equipmentData, response, aiResponse, messages, otherVars>>

\* ------------------------------------------------------------ useChat client
\* the fallback object generateLangChainResponse returns from its catch
ClientDebugText(errMessage) ==
  [isObject |-> TRUE,
   text |-> Text("clientDebug", errMessage, <<>>, body.message),
   chart |-> NoChart]

generateLangChainResponse(http, fetchOk) ==
  IF ~fetchOk THEN ClientDebugText("Failed to fetch")
  ELSE IF http.status # 200 THEN ClientDebugText("HTTP error! status: 500")
  ELSE IF http.error # ""
    THEN IF http.response # NoText
           THEN [isObject |-> FALSE, text |-> http.response, chart |-> NoChart]
           ELSE ClientDebugText(http.error)
  ELSE [isObject |-> TRUE, text |-> http.response, chart |-> http.chart]

SessionMessages(sessionId) ==
  SelectSeq(chat_messages, LAMBDA m : m.session_id = sessionId)

\* sendMessage after the edge function has answered: the returned text is
\* only inspected for a chart; what is rendered is reloaded from the store
ClientReceive ==
  /\ pc = "responded"
  /\ \E fetchOk \in BOOLEAN :
       aiResponse' = generateLangChainResponse(httpResponse, fetchOk)
  /\ \E loaded \in BOOLEAN :
       messages' = IF loaded THEN SessionMessages(body.sessionId) ELSE messages
  /\ pc' = "idle"
  /\ UNCHANGED <<variant, envKey, table, chat_messages, nreq, body,
                 isChartRequest, equipmentData, response, ioLog, httpResponse,
                 otherVars>>

\* ------------------------------------------------------------- Next, Spec
Next ==
  \/ ChatReceive \/ ChatUserInsertDone \/ ChatAiReadDone \/ ChatLlmDone
  \/ ChatAnalyticsReadDone \/ ChatAsstInsertDone
  \/ DebugReceive \/ DebugUserInsertDone \/ DebugTestDone \/ DebugAiReadDone
  \/ DebugLlmDone \/ DebugFallbackReadDone \/ DebugAsstInsertDone
  \/ LangchainReceive \/ LangchainReadDone \/ LangchainOeeReadDone
  \/ LangchainLlmDone \/ LangchainInsertDone
  \/ IntelReceive \/ IntelUserInsertDone \/ IntelReadDone
  \/ IntelAsstInsertDone
  \/ ClientReceive

Spec == Init /\ [][Next]_vars

\* ------------------------------------------- SpecAgg: the aggregation alone
\* row sets the aggregation is applied to
RowSets ==
  SeqsUpTo(AggRows, MaxAggRows) \cup WideRowSets
    \cup SeqsUpTo(ReasonRows, MaxReasonRows) \cup OtherStatusRowSets
    \cup {ScenarioA, ScenarioC}

\* messages and chart queries, one for each branch and one matching two
Queries == {<<"Hello">>, <<"availability">>, <<"downtime", "by", "machine">>,
            <<"failure", "reason">>, <<"oee">>,
            <<"Pareto", "of", "availability">>}

InitAgg ==
  /\ InitHandler
  /\ variant = "chat" /\ envKey = NoKey /\ table = <<>>
  /\ aggRows \in RowSets
  /\ aggOut = NoAgg
  /\ InitImportIdle /\ InitClientIdle

Availabilities(entries) == [i \in 1..Len(entries) |-> entries[i].availability]

\* num / den, evaluated only when den > 0
Ratio(num, den) == [nan |-> FALSE, num |-> num, den |-> den]

\* what every response function computes first
BasicMetrics(fn, query) ==
  [NoAgg EXCEPT !.fn = fn, !.query = query,
                !.totalLogs = Len(aggRows),
                !.totalDowntime = totalDowntime(aggRows),
                !.totalRuntime = totalRuntime(aggRows),
                !.overall = <<GuardedAvailability(totalRuntime(aggRows),
                                                  totalDowntime(aggRows))>>]

\* generateAnalyticsResponse on a non-empty row set
AggAnalytics ==
  /\ aggOut = NoAgg
  /\ aggRows # <<>>
  /\ \E q \in Queries :
       LET ranking == equipmentAnalysis(aggRows)
           m == BasicMetrics("generateAnalyticsResponse", q)
       IN aggOut' = [m EXCEPT !.perEquip = ranking,
                              !.priority = IF ranking = <<>> THEN <<>>
                                           ELSE <<ranking[1].name>>,
                              !.ratios = m.overall \o Availabilities(ranking)]
  /\ UNCHANGED <<handlerVars, aggRows, importVars, clientVars>>

\* generateBasicChart with the chart type left to the query
AggBasicChart ==
  /\ aggOut = NoAgg
  /\ aggRows # <<>>
  /\ \E q \in Queries :
       LET chart == generateBasicChart(q, aggRows, "")
           byAvailability == chart.title = "Equipment Availability (%)"
           byReason == chart.type = "pareto"
       IN aggOut' = [NoAgg EXCEPT
                       !.fn = "generateBasicChart", !.query = q,
                       !.chart = chart,
                       !.perEquip = IF byAvailability THEN availabilityData(aggRows)
                                                      ELSE <<>>,
                       !.buckets = IF byReason THEN reasonCounts(aggRows) ELSE <<>>,
                       !.ratios = IF byAvailability THEN chart.data ELSE <<>>]
  /\ UNCHANGED <<handlerVars, aggRows, importVars, clientVars>>

\* generateIntelligentResponse: the metrics, then the branch of the message
AggIntelligent ==
  /\ aggOut = NoAgg
  /\ \E q \in Queries :
       LET tpl == generateIntelligentResponse(q, aggRows).text.tpl
           m == [BasicMetrics("generateIntelligentResponse", q) EXCEPT !.tpl = tpl]
           ranking == equipmentAvailability(aggRows)
           down == downLogs(aggRows)
           running == runningLogs(aggRows)
       IN aggOut' =
            CASE tpl = "intelAvailability" ->
                   [m EXCEPT !.perEquip = ranking,
                             !.priority = IF ranking = <<>> THEN <<>>
                                          ELSE <<ranking[Len(ranking)].name>>,
                             !.ratios = m.overall \o Availabilities(ranking)]
              [] tpl = "intelDowntime" ->
                   [m EXCEPT !.buckets = sortedDowntime(aggRows),
                             !.ratios = downtimeShares(aggRows) \o
                                <<IF Len(down) > 0
                                    THEN Ratio(totalDowntime(aggRows), Len(down))
                                    ELSE Zero>>]
              [] tpl = "intelOee" ->
                   [m EXCEPT !.ratios = m.overall \o
                                <<IF Len(running) > 0
                                    THEN Ratio(totalRuntime(aggRows), Len(running))
                                    ELSE Zero,
                                  UnguardedPct(Len(running), Len(aggRows))>>]
              [] OTHER -> [m EXCEPT !.ratios = m.overall]
  /\ UNCHANGED <<handlerVars, aggRows, importVars, clientVars>>

\* the client-side generateAIResponse, availability branch: with a NaN among
\* the keys the comparator is inconsistent and the order is the engine's
AggClient ==
  /\ aggOut = NoAgg
  /\ LET mapped == clientEquipmentAvailability(aggRows)
         hasNaN == \E i \in 1..Len(mapped) : mapped[i].availability.nan
         overall == <<UnguardedAvailability(totalRuntime(aggRows),
                                            totalDowntime(aggRows))>>
         m == [NoAgg EXCEPT !.fn = "clientGenerateAIResponse", !.overall = overall]
     IN IF hasNaN
          THEN \E f \in [1..Len(mapped) -> 1..Len(mapped)] :
                 /\ \A i, j \in 1..Len(mapped) : i # j => f[i] # f[j]
                 /\ aggOut' = [m EXCEPT !.perEquip =
                                 [i \in 1..Len(mapped) |-> mapped[f[i]]]]
          ELSE aggOut' = [m EXCEPT !.perEquip = SortByAvailability(mapped, FALSE)]
  /\ UNCHANGED <<handlerVars, aggRows, importVars, clientVars>>

\* the Chart component renders the pareto chart the builder returned
AggRenderChart ==
  /\ aggOut.fn = "generateBasicChart"
  /\ aggOut.chart.type = "pareto"
  /\ aggOut' = [aggOut EXCEPT !.fn = "Chart", !.rendered = ParetoRender(aggOut.chart)]
  /\ UNCHANGED <<handlerVars, aggRows, importVars, clientVars>>

NextAgg ==
  \/ AggAnalytics
  \/ AggBasicChart
  \/ AggIntelligent
  \/ AggClient
  \/ AggRenderChart

SpecAgg == InitAgg /\ [][NextAgg]_vars

\* =================================================================== claims
Idx == 1..Len(ioLog)
IsEv(i, ops, ev) == ioLog[i].op \in ops /\ ioLog[i].ev = ev
EquipmentReads == {"readEquipment"}
UserInserts == {"insertUser", "insertBoth"}
AssistantInserts == {"insertAssistant", "insertBoth"}
LlmCalls == Cardinality({i \in Idx : IsEv(i, {"chatCompletion"}, "start")})
Happened(op, res) == \E i \in Idx : ioLog[i] = Ev(op, "end", res)
LlmFailed == \E i \in Idx : IsEv(i, {"chatCompletion"}, "end") /\ ioLog[i].res # "ok"

\* absent, empty, without the 'sk-' prefix, or of length <= 20
InvalidCredential(k) ==
  \/ ~k.set
  \/ k.len = 0
  \/ k.prefix # "sk-"
  \/ k.len <= 20

\* the credential the handler checks
ConfiguredKey == IF variant = "debug" THEN DebugApiKey ELSE envKey

\* assistant rows this request has stored with the returned text
StoredReplies(text) ==
  {i \in 1..Len(chat_messages) :
     /\ chat_messages[i].role = "assistant"
     /\ chat_messages[i].by = nreq
     /\ chat_messages[i].session_id = body.sessionId
     /\ chat_messages[i].content = text}

Answered == pc = "responded"

\* C1: in oee-chat, when the credential is valid, the user message was stored
\* and the generative call failed, the handler answers 200 with a non-empty
\* generateAnalyticsResponse text and no error, has stored an assistant
\* message, and the text is the analytics template when rows were fetched.
C1_FallbackAnswersAndStores ==
  (/\ variant = "chat" /\ Answered
   /\ ~InvalidCredential(envKey)
   /\ Happened("insertUser", "ok")
   /\ LlmFailed)
  => /\ httpResponse.status = 200
     /\ httpResponse.error = ""
     /\ httpResponse.response.tpl \in {"analytics", "nodata"}
     /\ (equipmentData.ok /\ equipmentData.rows # <<>>
           => httpResponse.response.tpl = "analytics")
     /\ StoredReplies(httpResponse.response) # {}

\* C2: with a credential that is absent, empty, not prefixed 'sk-' or of
\* length <= 20, oee-chat and oee-chat-debug make no chat-completion call
\* during the request and answer from their template functions.
C2_NoCallWithoutCredential ==
  (variant \in {"chat", "debug"} /\ nreq > 0 /\ InvalidCredential(ConfiguredKey))
  => /\ LlmCalls = 0
     /\ httpResponse.status = 200
          => httpResponse.response.tpl \in
               {"analytics", "nodata", "fallbackAnalytics", "fallbackNoData"}

C2_Witness ==
  /\ variant = "chat" /\ Answered
  /\ envKey = [set |-> TRUE, prefix |-> "sk-", len |-> 20]
  /\ httpResponse.status = 200
  /\ httpResponse.response.tpl = "analytics"

\* C3: when the insert of the user message reports an error the request is
\* aborted: status 500, an error payload without response text, and no
\* equipment read, no chat-completion call and no assistant insert.
C3_UserInsertErrorAborts ==
  (variant \in {"chat", "debug", "intel"} /\ Happened("insertUser", "error"))
  => /\ httpResponse.status = 500
     /\ httpResponse.error # ""
     /\ httpResponse.response = NoText
     /\ \A i \in Idx : ioLog[i].op = "insertUser"
     /\ \A i \in 1..Len(chat_messages) : chat_messages[i].by # nreq

C3_Witness ==
  /\ variant = "chat" /\ Answered
  /\ Happened("insertUser", "error")
  /\ httpResponse.status = 500

\* no two I/O operations of a request are in flight together
NoOverlap ==
  \A i \in Idx :
    /\ ioLog[i].ev = "start"
         => (i = Len(ioLog) \/ (ioLog[i + 1].ev = "end" /\ ioLog[i + 1].op = ioLog[i].op))
    /\ ioLog[i].ev = "end"
         => (i > 1 /\ ioLog[i - 1].ev = "start" /\ ioLog[i - 1].op = ioLog[i].op)

UserInsertBeforeReads ==
  \A i \in Idx : IsEv(i, EquipmentReads, "start")
    => \E j \in 1..(i - 1) : IsEv(j, UserInserts, "end")

CallBeforeAssistantInsert ==
  \A i, j \in Idx :
    (ioLog[i].op = "chatCompletion" /\ IsEv(j, AssistantInserts, "start")) => i < j

C5_ReadFailureIsNoData ==
  (/\ variant \in {"chat", "intel"} /\ Answered
   /\ Happened("readEquipment", "error")
   /\ ~Happened("readEquipment", "ok"))
  => /\ httpResponse.status = 200
     /\ httpResponse.response.tpl = "nodata"
     /\ StoredReplies(httpResponse.response) # {}

\* C6: a body without message or without sessionId is rejected before any
\* I/O.
C6_RejectBeforeIO ==
  (variant = "chat" /\ nreq > 0
   /\ (body.message = NoMessage \/ body.sessionId = NoSession))
  => ioLog = <<>>

\* C7: neither the response payload nor the text rendered as the assistant's
\* reply embeds the message of a caught exception.
C7_NoRawException ==
  variant = "chat"
  => /\ httpResponse.details = ""
     /\ httpResponse.debug = ""
     /\ httpResponse.response.err = ""
     /\ \A i \in 1..Len(messages) : messages[i].content.err = ""

\* C8: a 200 response carrying text implies exactly one assistant message
\* with that text stored for the session by this request, after its user
\* message.
C8_StoredBeforeReturn ==
  (variant = "chat" /\ Answered /\ httpResponse.status = 200)
  => /\ Cardinality(StoredReplies(httpResponse.response)) = 1
     /\ \A i \in StoredReplies(httpResponse.response) :
          \E j \in 1..(i - 1) :
            chat_messages[j].role = "user" /\ chat_messages[j].by = nreq

HardFailure(i) ==
  IsEv(i, {"chatCompletion"}, "end") /\ ioLog[i].res \in {"throws", "non2xx", "malformed"}

InRange(x) == ~x.nan /\ 0 <= x.num /\ x.num <= 100 * x.den
IsZero(x) == ~x.nan /\ x.num = 0

\* C10: every overall and per-equipment availability the aggregation computes
\* lies in [0, 100] and is exactly 0 when runtime and downtime are both 0.
C10_AvailabilityInRange ==
  /\ \A i \in 1..Len(aggOut.overall) :
       /\ InRange(aggOut.overall[i])
       /\ (totalRuntime(aggRows) = 0 /\ totalDowntime(aggRows) = 0)
            => IsZero(aggOut.overall[i])
  /\ \A i \in 1..Len(aggOut.perEquip) :
       /\ InRange(aggOut.perEquip[i].availability)
       /\ (aggOut.perEquip[i].runtime = 0 /\ aggOut.perEquip[i].downtime = 0)
            => IsZero(aggOut.perEquip[i].availability)

\* ---- aggregation claims (SpecAgg)
RECURSIVE SumOf(_)
SumOf(ints) == IF ints = <<>> THEN 0 ELSE Head(ints) + SumOf(Tail(ints))

Applied(fn) == aggOut.fn = fn
DowntimeChart == aggOut.chart.title = "Total Downtime by Equipment (minutes)"

\* C11: the per-equipment runtime minutes of the ranking add up to the total
\* runtime and the per-equipment downtime minutes to the total downtime, for
\* any number of distinct equipment; the same for the downtime-by-equipment
\* chart.
C11_SumsArePartition ==
  /\ Applied("generateAnalyticsResponse")
       => /\ SumOf([i \in 1..Len(aggOut.perEquip) |-> aggOut.perEquip[i].runtime])
               = aggOut.totalRuntime
          /\ SumOf([i \in 1..Len(aggOut.perEquip) |-> aggOut.perEquip[i].downtime])
               = aggOut.totalDowntime
  /\ (Applied("generateBasicChart") /\ DowntimeChart)
       => SumOf([i \in 1..Len(aggOut.chart.data) |-> aggOut.chart.data[i].num])
            = totalDowntime(aggRows)

\* x <= y for numbers that are not NaN
LessEq(x, y) == ~x.nan /\ ~y.nan /\ x.num * y.den <= y.num * x.den

Ascending(entries) ==
  \A i \in 1..(Len(entries) - 1) :
    LessEq(entries[i].availability, entries[i + 1].availability)
Descending(entries) ==
  \A i \in 1..(Len(entries) - 1) :
    LessEq(entries[i + 1].availability, entries[i].availability)

AvailabilityRanking == Applied("generateIntelligentResponse") /\ aggOut.tpl = "intelAvailability"

AvailabilityOf(name) ==
  LET logs == EquipLogs(aggRows, name)
  IN GuardedAvailability(totalRuntime(logs), totalDowntime(logs))

AllEquipment == {aggRows[i].equipment_name : i \in 1..Len(aggRows)}

\* C13: the equipment the analytics text names as needing immediate
\* attention (the first entry of the ranking) has the minimum availability
\* among all distinct equipment of the rows; Machine A 90% and Machine B 60%
\* yields Machine B.
C13_PriorityIsWorst ==
  Applied("generateAnalyticsResponse")
  => /\ Len(aggOut.priority) = 1
     /\ \A name \in AllEquipment :
          LessEq(AvailabilityOf(aggOut.priority[1]), AvailabilityOf(name))
     /\ aggRows = ScenarioC => aggOut.priority = <<"Machine B">>

\* the minutes of the rows whose status, lowercased, is one of `statuses`
MinutesWithStatus(statuses) ==
  SumOf([i \in 1..Len(aggRows) |->
           IF toLowerCase(aggRows[i].status) \in statuses
             THEN Minutes(aggRows[i]) ELSE 0])

ComputesMetrics ==
  Applied("generateAnalyticsResponse") \/ Applied("generateIntelligentResponse")

DownRowsWith(r) ==
  {i \in 1..Len(aggRows) :
     toLowerCase(aggRows[i].status) = "down" /\ aggRows[i].reason = r}

RECURSIVE MinutesOfRows(_)
MinutesOfRows(rows) ==
  IF rows = {} THEN 0
  ELSE LET i == CHOOSE j \in rows : TRUE
       IN Minutes(aggRows[i]) + MinutesOfRows(rows \ {i})

BucketLabels == {aggOut.buckets[i].label : i \in 1..Len(aggOut.buckets)}
OneBucketPerLabel ==
  \A i, j \in 1..Len(aggOut.buckets) :
    aggOut.buckets[i].label = aggOut.buckets[j].label => i = j

ParetoBreakdown == Applied("generateBasicChart") /\ aggOut.chart.type = "pareto"
TopCauses == Applied("generateIntelligentResponse") /\ aggOut.tpl = "intelDowntime"

NonIncreasing(values) ==
  \A i \in 1..(Len(values) - 1) : LessEq(values[i + 1], values[i])

Pairs(labels, values) == {<<labels[i], values[i]>> : i \in 1..Len(labels)}

\* the first down row with reason r
FirstDownRowWith(r) == CHOOSE i \in DownRowsWith(r) : \A j \in DownRowsWith(r) : i <= j

Rendered == Applied("Chart")

Mentions(words) == \E w \in words : includes(LowerWords(aggOut.query), <<w>>)
ParetoWords == {"pareto", "cause", "reason"}
AvailabilityWords == {"availability", "uptime"}
ParetoTitles == {"Failure Reasons Analysis (Pareto Chart)", "No Failure Reasons Available"}

NoChartKeyword(message) ==
  \A keyword \in chartKeywords : ~includes(LowerWords(message), keyword)

\* C18: when the user message contains none of the chart keywords the
\* response carries no chart, in generative mode and in template mode alike.
C18_NoKeywordNoChart ==
  (variant = "chat" /\ nreq > 0 /\ NoChartKeyword(body.message))
  => /\ response.chart = NoChart
     /\ httpResponse.chart = NoChart
     /\ aiResponse.chart = NoChart

C18_Witness ==
  /\ variant = "chat" /\ Answered
  /\ body.message = <<"Hello">>
  /\ httpResponse.status = 200
  /\ httpResponse.response.tpl = "ai"
  /\ equipmentData.ok /\ equipmentData.rows # <<>>
  /\ httpResponse.chart = NoChart

\* the handler answers from its template function
TemplateMode ==
  \/ variant = "intel"
  \/ variant = "chat" /\ (InvalidCredential(envKey) \/ LlmFailed)

\* C19: when the fetched row set is empty the template-mode response is the
\* no-data message and carries no chart, even if the message asks for one.
C19_EmptyRowsIsNoData ==
  (/\ variant \in {"chat", "intel"} /\ Answered /\ TemplateMode
   /\ httpResponse.status = 200
   /\ equipmentData.ok /\ equipmentData.rows = <<>>)
  => /\ httpResponse.response.tpl = "nodata"
     /\ httpResponse.chart = NoChart

\* C20: no ratio evaluated while building a response is NaN: availability,
\* share of downtime per reason, utilization, average durations and
\* cumulative percentage evaluate to 0 when their denominator is 0.
C20_NoNaNRatio ==
  (\/ Applied("generateAnalyticsResponse") \/ Applied("generateBasicChart")
   \/ Applied("generateIntelligentResponse") \/ Applied("Chart"))
  => /\ \A i \in 1..Len(aggOut.ratios) : ~aggOut.ratios[i].nan
     /\ \A i \in 1..Len(aggOut.rendered.cumulative) :
          ~aggOut.rendered.cumulative[i].nan

\* C21 as stated: scenario A yields availability 83.3%, the ranking
\* [Machine A at 83.3%] and a failure breakdown whose only bucket is 'Belt'
\* with value 20.
C21_ScenarioA ==
  aggRows = ScenarioA
  => /\ Applied("generateAnalyticsResponse")
          => /\ toFixed1(aggOut.overall[1]) = 833
             /\ Len(aggOut.perEquip) = 1
             /\ aggOut.perEquip[1].name = "Machine A"
             /\ toFixed1(aggOut.perEquip[1].availability) = 833
     /\ (ParetoBreakdown \/ TopCauses)
          => aggOut.buckets = <<[label |-> "Belt", value |-> 20]>>

\* C21 amended: the same availability and ranking; the only bucket is 'Belt',
\* with value 1 in the Pareto chart, which counts occurrences, and 20 in the
\* top-causes list, which sums minutes.
C21_ScenarioA_Counts ==
  aggRows = ScenarioA
  => /\ Applied("generateAnalyticsResponse")
          => /\ toFixed1(aggOut.overall[1]) = 833
             /\ Len(aggOut.perEquip) = 1
             /\ aggOut.perEquip[1].name = "Machine A"
             /\ toFixed1(aggOut.perEquip[1].availability) = 833
     /\ ParetoBreakdown
          => /\ aggOut.buckets = <<[label |-> "Belt", value |-> 1]>>
             /\ aggOut.chart.labels = <<"Belt">>
             /\ aggOut.chart.data = <<Num(1)>>
     /\ TopCauses => aggOut.buckets = <<[label |-> "Belt", value |-> 20]>>

C21_Witness ==
  /\ aggRows = ScenarioA
  /\ ParetoBreakdown
  /\ aggOut.chart.data = <<Num(1)>>

\* ============================================================ data import
\* The three DataImport components: "sidebar" (CSV, rows without a name or a
\* status skipped), "excel" and "csv" (a random name and 'unknown' put in).
Importers == {"sidebar", "excel", "csv"}

\* a cell as parseInt reads it: nothing, "n", "-n", "n.7", "n min", "abc"
Cell(kind, n) == [kind |-> kind, n |-> n]
Absent == Cell("absent", 0)

\* a || b on cells and on strings: the first that is not undefined or empty
OrCell(a, b) == IF a.kind # "absent" THEN a ELSE b
Or(a, b) == IF a # "" THEN a ELSE b

\* parseInt: the leading integer of the text, NaN when there is none
parseInt(cell) ==
  CASE cell.kind \in {"digits", "decimal", "suffixed"} -> [nan |-> FALSE, n |-> cell.n]
    [] cell.kind = "negative" -> [nan |-> FALSE, n |-> 0 - cell.n]
    [] OTHER -> [nan |-> TRUE, n |-> 0]

\* a row of the file under the normalised headers
RawLog(name, id, status, code, duration, downtime, reason) ==
  [equipment_name |-> name, equipment_id |-> id, status |-> status,
   status_code |-> code, duration_minutes |-> duration,
   downtime_duration |-> downtime, reason |-> reason]

RawLogs ==
  {RawLog("Machine A", "", "down", "", Cell("digits", 20), Absent, "Belt"),
   RawLog("", "EQ-7", "", "Running", Absent, Cell("digits", 100), ""),
   RawLog("", "", "down", "", Cell("digits", 20), Absent, ""),
   RawLog("Machine B", "", "", "", Cell("digits", 20), Absent, ""),
   RawLog("Machine B", "", "down", "", Cell("words", 0), Absent, ""),
   RawLog("Machine B", "", "down", "", Cell("negative", 5), Absent, ""),
   RawLog("Machine B", "", "Running", "", Cell("decimal", 12), Absent, "")}

\* a file of n complete rows, all different
LargeRows(n) ==
  [i \in 1..n |-> RawLog("Machine A", "", IF i % 2 = 0 THEN "down" ELSE "Running",
                         "", Cell("digits", i), Absent, "")]
Files ==
  [accepted : BOOLEAN, rows : SeqsUpTo(RawLogs, MaxFileRows)]
    \cup {[accepted |-> TRUE, rows |-> LargeRows(n)] :
            n \in UNION {{k * BatchSize, k * BatchSize + 1} : k \in 1..(MaxBatches - 1)}}

\* Math.random().toString(36).substr(2, 9)
RandomSuffixes == {"k3x9", "p0q2"}
RandomName(suffix) == "Equipment_" \o suffix

\* the rows for which the Excel and CSV variants draw a random name
NameAliases(imp, log) ==
  IF imp = "excel" THEN log.equipment_name
                   ELSE Or(log.equipment_name, log.equipment_id)
StatusAliases(imp, log) ==
  IF imp = "excel" THEN log.status ELSE Or(log.status, log.status_code)
DurationAliases(imp, log) ==
  IF imp = "excel" THEN log.duration_minutes
                   ELSE OrCell(log.duration_minutes, log.downtime_duration)
Unnamed(imp, rows) == {i \in 1..Len(rows) : NameAliases(imp, rows[i]) = ""}

\* parseInt(a || b || '0') || 0
durationMinutes(imp, log) ==
  LET parsed == parseInt(OrCell(DurationAliases(imp, log), Cell("digits", 0)))
  IN IF parsed.nan \/ parsed.n = 0 THEN 0 ELSE parsed.n

\* the object a row is mapped to; null for a row the sidebar variant skips
NullLog == Row("", "", 0, "")
mapLog(imp, log, suffix) ==
  LET equipmentName == NameAliases(imp, log)
      status == StatusAliases(imp, log)
  IN IF imp = "sidebar"
       THEN IF equipmentName = "" \/ status = ""
              THEN NullLog
              ELSE Row(equipmentName, status, durationMinutes(imp, log), log.reason)
       ELSE Row(Or(equipmentName, RandomName(suffix)), Or(status, "unknown"),
                durationMinutes(imp, log), log.reason)

\* rows.map(...).filter(...): suffixes holds the random draw of each unnamed row
mapLogs(imp, rows, suffixes) ==
  SelectSeq([i \in 1..Len(rows) |->
               mapLog(imp, rows[i], IF i \in DOMAIN suffixes THEN suffixes[i] ELSE "")],
            LAMBDA log : log # NullLog /\ log.equipment_name # "" /\ log.status # "")

\* an importLog entry
Op(op, res) == [op |-> op, res |-> res]

\* the uploads started so far
Uploads == Len(SelectSeq(importLog, LAMBDA e : e.op = "upload"))

\* the delete of every row: its result is not looked at
DeleteResults == {"ok", "error"}

\* logs.slice(i, i + batchSize)
Batch(rows, i) ==
  SubSeq(rows, i + 1, IF i + BatchSize < Len(rows) THEN i + BatchSize ELSE Len(rows))

\* the change event of the file input, shown while uploadStatus is 'idle'
HandleFileUpload ==
  /\ importPc = "idle" /\ uploadStatus = "idle"
  /\ Uploads < MaxUploads
  /\ importLog' = Append(importLog, Op("upload", "started"))
  /\ IF ~file.accepted
       THEN /\ errorMessage' = "Please upload a file of the expected type"
            /\ uploadStatus' = "error"
            /\ importPc' = "returned"
       ELSE /\ errorMessage' = ""
            /\ uploadStatus' = "processing"
            /\ importPc' = "awaitFile"
  /\ UNCHANGED <<importer, file, previewData, equipmentLogs, cursor, equipment,
                 handlerVars, aggVars, clientVars>>

\* the file is read and parsed, the rows are mapped, the preview and 'success'
\* are set, and importToDatabase issues the delete
FileRead ==
  /\ importPc = "awaitFile"
  /\ \E ok \in BOOLEAN, suffixes \in [Unnamed(importer, file.rows) -> RandomSuffixes] :
       LET mapped == mapLogs(importer, file.rows, suffixes)
       IN IF ~ok
            THEN /\ errorMessage' = "Error processing file"
                 /\ uploadStatus' = "error"
                 /\ importPc' = "returned"
                 /\ UNCHANGED <<previewData, equipmentLogs>>
            ELSE /\ previewData' = Take(mapped, PreviewLimit)
                 /\ equipmentLogs' = mapped
                 /\ IF mapped = <<>>
                      THEN /\ errorMessage' = "No valid equipment data found"
                           /\ uploadStatus' = "error"
                           /\ importPc' = "returned"
                      ELSE /\ errorMessage' = errorMessage
                           /\ uploadStatus' = "success"
                           /\ importPc' = "awaitDelete"
                           /\ UNCHANGED importLog
  /\ UNCHANGED <<importer, file, cursor, importLog, equipment,
                 handlerVars, aggVars, clientVars>>

\* the delete resolves, the first batch is issued
DeleteDone ==
  /\ importPc = "awaitDelete"
  /\ \E res \in DeleteResults :
       /\ table' = IF res = "ok" THEN <<>> ELSE table
       /\ importLog' = Append(importLog, Op("delete", res))
  /\ cursor' = 0
  /\ importPc' = "awaitInsert"
  /\ UNCHANGED <<importer, file, uploadStatus, errorMessage, previewData,
                 equipmentLogs, equipment,
                 variant, envKey, chat_messages, nreq, pc, body, isChartRequest,
                 equipmentData, response, ioLog, httpResponse, aiResponse,
                 messages, aggVars, clientVars>>

\* one batch insert resolves: on error the catch sets 'error'; otherwise the
\* next batch, or the delete on the equipment table, is issued
InsertDone ==
  /\ importPc = "awaitInsert"
  /\ \E ok \in BOOLEAN :
       /\ importLog' = Append(importLog, Op("insert", StoreRes(ok)))
       /\ IF ok
            THEN /\ table' = Batch(equipmentLogs, cursor) \o table
                 /\ cursor' = cursor + BatchSize
                 /\ importPc' = IF cursor + BatchSize < Len(equipmentLogs)
                                  THEN "awaitInsert" ELSE "awaitEquipmentDelete"
                 /\ UNCHANGED <<errorMessage, uploadStatus>>
            ELSE /\ errorMessage' = "Error importing data to database"
                 /\ uploadStatus' = "error"
                 /\ importPc' = "returned"
                 /\ UNCHANGED <<table, cursor>>
  /\ UNCHANGED <<importer, file, previewData, equipmentLogs, equipment,
                 variant, envKey, chat_messages, nreq, pc, body, isChartRequest,
                 equipmentData, response, ioLog, httpResponse, aiResponse,
                 messages, aggVars, clientVars>>

\* the delete on the equipment table resolves, the insert is issued
EquipmentDeleteDone ==
  /\ importPc = "awaitEquipmentDelete"
  /\ \E res \in DeleteResults :
       equipment' = IF res = "ok" THEN <<>> ELSE equipment
  /\ importPc' = "awaitEquipmentInsert"
  /\ UNCHANGED <<importer, file, uploadStatus, errorMessage, previewData,
                 equipmentLogs, cursor, importLog,
                 handlerVars, aggVars, clientVars>>

\* the insert into equipment resolves (an error is only logged);
\* onImportComplete()
EquipmentInsertDone ==
  /\ importPc = "awaitEquipmentInsert"
  /\ \E ok \in BOOLEAN :
       equipment' = IF ok THEN uniqueEquipment(equipmentLogs) \o equipment
                          ELSE equipment
  /\ importPc' = "done"
  /\ UNCHANGED <<importer, file, uploadStatus, errorMessage, previewData,
                 equipmentLogs, cursor, importLog,
                 handlerVars, aggVars, clientVars>>

\* the "Try Again" button of the error panel
TryAgain ==
  /\ importPc = "returned" /\ uploadStatus = "error"
  /\ uploadStatus' = "idle"
  /\ previewData' = <<>>
  /\ errorMessage' = ""
  /\ importPc' = "idle"
  /\ UNCHANGED <<importer, file, equipmentLogs, cursor, importLog, equipment,
                 handlerVars, aggVars, clientVars>>

\* ------------------------------------------------ SpecImport: one upload
InitImport ==
  /\ InitHandler /\ variant = "chat" /\ envKey = NoKey
  /\ InitAggIdle /\ InitClientIdle
  /\ importer \in Importers
  /\ file \in Files
  /\ uploadStatus = "idle"
  /\ errorMessage = ""
  /\ previewData = <<>>
  /\ equipmentLogs = <<>>
  /\ cursor = 0
  /\ importPc = "idle"
  /\ importLog = <<>>
  /\ equipment = <<>>

NextImport ==
  \/ HandleFileUpload
  \/ FileRead
  \/ DeleteDone
  \/ InsertDone
  \/ EquipmentDeleteDone
  \/ EquipmentInsertDone
  \/ TryAgain

SpecImport == InitImport /\ [][NextImport]_vars

\* ------------------- SpecChatImport: a chat request while a file is imported
InitChatImport ==
  /\ InitHandler /\ variant = "chat"
  /\ InitAggIdle /\ InitClientIdle
  /\ importer = "sidebar"
  /\ file \in {f \in Files : f.accepted /\ Len(f.rows) > BatchSize}
  /\ uploadStatus = "idle"
  /\ errorMessage = ""
  /\ previewData = <<>>
  /\ equipmentLogs = <<>>
  /\ cursor = 0
  /\ importPc = "idle"
  /\ importLog = <<>>
  /\ equipment = <<>>

NextChatImport ==
  \/ ChatReceive \/ ChatUserInsertDone \/ ChatAiReadDone \/ ChatLlmDone
  \/ ChatAnalyticsReadDone \/ ChatAsstInsertDone
  \/ HandleFileUpload
  \/ FileRead
  \/ DeleteDone
  \/ InsertDone
  \/ EquipmentDeleteDone
  \/ EquipmentInsertDone

SpecChatImport == InitChatImport /\ [][NextChatImport]_vars

\* ------------------------------------------------- claims on the data import
\* the import loop stands between its first and its second batch
BetweenBatches == importPc = "awaitInsert" /\ cursor = BatchSize

\* C22: a chat request that interleaves with a running re-import (after the
\* delete-all, or between two insert batches) still completes with status
\* 200 and an assistant text: once its user message is stored, nothing it
\* reads from the table makes it fail.
C22_RequestSurvivesReimport ==
  (Answered /\ body.message # NoMessage /\ Happened("insertUser", "ok"))
    => /\ httpResponse.status = 200
       /\ httpResponse.response # NoText

C22_Witness ==
  /\ Answered /\ httpResponse.status = 200
  /\ BetweenBatches
  /\ equipmentData.ok /\ equipmentData.rows = Batch(equipmentLogs, 0)
  /\ httpResponse.response.data = Batch(equipmentLogs, 0)

\* how many times a row occurs
Occurrences(rows, row) == Cardinality({i \in 1..Len(rows) : rows[i] = row})
SameRows(a, b) ==
  /\ Len(a) = Len(b)
  /\ \A i \in 1..Len(a) : Occurrences(a, a[i]) = Occurrences(b, a[i])

\* C23: after a bulk import has finished without reporting an error,
\* equipment_status_logs holds exactly the rows of the file that were handed
\* to the import: none of the old rows, each imported row once.
C23_TableIsTheFile ==
  (importPc = "done" /\ uploadStatus # "error") => SameRows(table, equipmentLogs)

\* the queries a chart of this request can be built for
ChartQueries ==
  {[query |-> body.message, type |-> ""],
   [query |-> <<"equipment", "availability">>, type |-> ""],
   [query |-> <<"downtime", "causes">>, type |-> "pie"]}

\* C24: the text and the chart of a response are computed from one fetched
\* snapshot of the rows, the one read last, in generative mode and in the
\* fallback after a generative failure, whatever the import does meanwhile.
C24_OneSnapshot ==
  (Answered /\ httpResponse.status = 200)
    => /\ httpResponse.response.data \in {<<>>, equipmentData.rows}
       /\ httpResponse.chart \in
            {NoChart} \cup
            {generateBasicChart(c.query, httpResponse.response.data, c.type) :
               c \in ChartQueries}

C24_Witness ==
  /\ Answered /\ httpResponse.status = 200
  /\ \E kind \in LlmFailures : Happened("chatCompletion", kind)
  /\ httpResponse.chart # NoChart
  /\ BetweenBatches
  /\ httpResponse.response.data = Batch(equipmentLogs, 0)

\* a row of the file with an equipment name and a status under some header
HasNameAndStatus(log) ==
  /\ Or(log.equipment_name, log.equipment_id) # ""
  /\ Or(log.status, log.status_code) # ""
FileNames ==
  UNION {{file.rows[i].equipment_name, file.rows[i].equipment_id} :
           i \in 1..Len(file.rows)}
FileStatuses ==
  UNION {{file.rows[i].status, file.rows[i].status_code} : i \in 1..Len(file.rows)}

\* C25: the rows handed to the import are the rows of the file that have an
\* equipment name and a status, with nothing put in for a missing one, and
\* every duration_minutes is a non-negative integer.
C25_InvalidRowsSkipped ==
  equipmentLogs # <<>>
    => /\ Len(equipmentLogs) =
            Cardinality({i \in 1..Len(file.rows) : HasNameAndStatus(file.rows[i])})
       /\ \A j \in 1..Len(equipmentLogs) :
            /\ equipmentLogs[j].equipment_name \in FileNames
            /\ equipmentLogs[j].status \in FileStatuses
            /\ equipmentLogs[j].duration_minutes >= 0

\* C30: uploadStatus is 'success' only after every batch has been inserted
\* without error.
C30_SuccessAfterInserts ==
  uploadStatus = "success"
    => importPc \in {"awaitEquipmentDelete", "awaitEquipmentInsert", "done"}

\* ================================================= useChat: sendMessage
\* Each sendMessage invocation runs with the isLoading, currentSession and
\* messageCharts of the render that created it (its closure); the state
\* setters act on the hook's state, which a later invocation will capture.

\* the ids chat_sessions hands out (gen_random_uuid), in order of creation
SessionIds == <<"s1", "s2", "s3", "s4">>

\* the id of a chat_messages row: `by` is the request that inserted it
MessageId(m) == <<m.by, m.role>>
NoMessageId == <<>>

\* what the user sends: the first suggested prompt
Prompts == {<<"Show", "me", "availability", "analysis", "for", "all", "equipment">>}

\* the charts an answer can carry
EdgeCharts == {generateBasicChart(q, ScenarioA, "") : q \in {<<"availability">>, <<"pareto">>}}

\* what the edge function does with one request: the rows it stores and its
\* answer; the assistant insert may fail without the answer showing it
EdgeOutcomes(content) ==
  {[http |-> Http500("Function execution failed", "Failed to save user message"),
    userStored |-> FALSE, asstStored |-> FALSE]}
  \cup {[http |-> Http200([text |-> Text("analytics", "", <<>>, content), chart |-> ch]),
         userStored |-> TRUE, asstStored |-> stored] :
          ch \in EdgeCharts \cup {NoChart}, stored \in BOOLEAN}

\* the catch and finally of sendMessage with the finally block left out
Finally_Missing(loading) == loading

\* finally { setIsLoading(false) }
Finally(loading) == FALSE

\* messageCharts[id], undefined when absent
ChartOf(charts, id) == IF id \in DOMAIN charts THEN charts[id] ELSE NoChart

\* data.map(message => ({...message, chart: ...})) over the session's rows
messagesWithCharts(sessionId, messageId, chart, charts) ==
  LET data == SessionMessages(sessionId)
  IN [i \in 1..Len(data) |->
        [session_id |-> data[i].session_id, role |-> data[i].role,
         content |-> data[i].content, by |-> data[i].by,
         chart |-> IF MessageId(data[i]) = messageId /\ messageId # NoMessageId
                     THEN chart ELSE ChartOf(charts, MessageId(data[i]))]]

\* .eq('role', 'assistant').order('timestamp', descending).limit(1)
LatestAssistant(sessionId) ==
  LET data == SelectSeq(SessionMessages(sessionId), LAMBDA m : m.role = "assistant")
  IN IF data = <<>> THEN <<>> ELSE <<data[Len(data)]>>

Running(c) == calls[c].pc # "done"
InFlight(c) == calls[c].pc \in {"awaitEdge", "awaitResponse"}

\* sendMessage(content) up to its first await
SendMessage ==
  /\ Len(calls) < MaxCalls
  /\ \E content \in Prompts :
       LET call == [pc |-> "done", content |-> content,
                    closure |-> [isLoading |-> isLoading,
                                 currentSession |-> currentSession,
                                 messageCharts |-> messageCharts],
                    overlaps |-> \E c \in 1..Len(calls) : Running(c),
                    created |-> NoSession, http |-> NoHttp,
                    aiResponse |-> NoAiResponse, messageId |-> NoMessageId]
           c == Len(calls) + 1
       IN IF call.closure.isLoading
            THEN /\ calls' = Append(calls, call)
                 /\ UNCHANGED <<isLoading, invocations>>
            ELSE IF call.closure.currentSession = NoSession
              THEN /\ calls' = Append(calls, [call EXCEPT !.pc = "awaitCreateSession"])
                   /\ UNCHANGED <<isLoading, invocations>>
              ELSE /\ isLoading' = TRUE
                   /\ calls' = Append(calls, [call EXCEPT !.pc = "awaitEdge"])
                   /\ invocations' =
                        Append(invocations,
                               [call |-> c, message |-> content,
                                sessionId |-> call.closure.currentSession])
  /\ UNCHANGED <<chat_sessions, sessions, currentSession, messageCharts,
                 handlerVars, aggVars, importVars>>

\* createNewSession resolves; then setIsLoading(true) and the call of
\* generateLangChainResponse(content, currentSession!.id), whose argument is
\* read from the closure
CreateSessionDone(c) ==
  /\ calls[c].pc = "awaitCreateSession"
  /\ Len(chat_sessions) < Len(SessionIds)
  /\ \E ok \in BOOLEAN :
       LET newSession == SessionIds[Len(chat_sessions) + 1]
       IN IF ~ok
            THEN /\ calls' = [calls EXCEPT ![c].pc = "done"]
                 /\ UNCHANGED <<chat_sessions, sessions, currentSession,
                                isLoading, invocations>>
            ELSE /\ chat_sessions' = Append(chat_sessions, newSession)
                 /\ sessions' = <<newSession>> \o sessions
                 /\ currentSession' = newSession
                 /\ IF calls[c].closure.currentSession = NoSession
                      THEN \* TypeError on null.id, caught; finally
                           /\ isLoading' = Finally(TRUE)
                           /\ calls' = [calls EXCEPT ![c].pc = "done",
                                                     ![c].created = newSession]
                           /\ UNCHANGED invocations
                      ELSE /\ isLoading' = TRUE
                           /\ calls' = [calls EXCEPT ![c].pc = "awaitEdge",
                                                     ![c].created = newSession]
                           /\ invocations' =
                                Append(invocations,
                                       [call |-> c, message |-> calls[c].content,
                                        sessionId |-> calls[c].closure.currentSession])
  /\ UNCHANGED <<messageCharts, handlerVars, aggVars, importVars>>

\* the edge function serves the request: it stores the messages and answers
EdgeFunction(c) ==
  /\ calls[c].pc = "awaitEdge"
  /\ \E o \in EdgeOutcomes(calls[c].content) :
       LET sid == calls[c].closure.currentSession
           user == [session_id |-> sid, role |-> "user",
                    content |-> UserText(calls[c].content), by |-> c]
           asst == [session_id |-> sid, role |-> "assistant",
                    content |-> o.http.response, by |-> c]
       IN /\ chat_messages' = chat_messages
                                \o (IF o.userStored THEN <<user>> ELSE <<>>)
                                \o (IF o.asstStored THEN <<asst>> ELSE <<>>)
          /\ calls' = [calls EXCEPT ![c].pc = "awaitResponse", ![c].http = o.http]
  /\ UNCHANGED <<variant, envKey, table, nreq, pc, body, isChartRequest,
                 equipmentData, response, ioLog, httpResponse, aiResponse,
                 messages, aggVars, importVars,
                 chat_sessions, sessions, currentSession, isLoading,
                 messageCharts, invocations>>

\* generateLangChainResponse returns (its fetch may reject, before or after
\* the function has run); the select of the latest assistant message, or
\* loadMessages, is issued
EdgeDone(c) ==
  /\ InFlight(c)
  /\ \E fetchOk \in BOOLEAN :
       /\ calls[c].pc = "awaitEdge" => ~fetchOk
       /\ LET answer == generateLangChainResponse(calls[c].http, fetchOk)
          IN calls' = [calls EXCEPT
                         ![c].aiResponse = answer,
                         ![c].pc = IF answer.isObject /\ answer.chart # NoChart
                                     THEN "awaitLatest" ELSE "awaitLoad"]
  /\ UNCHANGED <<chat_sessions, sessions, currentSession, isLoading,
                 messageCharts, invocations, handlerVars, aggVars, importVars>>

\* the latest assistant message of the session is looked up and the chart is
\* filed under its id; the reload of the messages is issued
LatestDone(c) ==
  /\ calls[c].pc = "awaitLatest"
  /\ \E ok \in BOOLEAN :
       LET data == IF ok THEN LatestAssistant(calls[c].closure.currentSession)
                         ELSE <<>>
       IN IF data # <<>>
            THEN /\ messageCharts' =
                      [id \in DOMAIN messageCharts \cup {MessageId(data[1])} |->
                         IF id = MessageId(data[1]) THEN calls[c].aiResponse.chart
                                                    ELSE messageCharts[id]]
                 /\ calls' = [calls EXCEPT ![c].messageId = MessageId(data[1]),
                                           ![c].pc = "awaitReload"]
            ELSE /\ calls' = [calls EXCEPT ![c].pc = "awaitTouch"]
                 /\ UNCHANGED messageCharts
  /\ UNCHANGED <<chat_sessions, sessions, currentSession, isLoading,
                 invocations, handlerVars, aggVars, importVars>>

\* the reload resolves: the chart goes to messageId, the other messages get
\* the charts of the closure
ReloadDone(c) ==
  /\ calls[c].pc = "awaitReload"
  /\ \E ok \in BOOLEAN :
       messages' = IF ok
                     THEN messagesWithCharts(calls[c].closure.currentSession,
                                             calls[c].messageId,
                                             calls[c].aiResponse.chart,
                                             calls[c].closure.messageCharts)
                     ELSE messages
  /\ calls' = [calls EXCEPT ![c].pc = "awaitTouch"]
  /\ UNCHANGED <<variant, envKey, table, chat_messages, nreq, pc, body,
                 isChartRequest, equipmentData, response, ioLog, httpResponse,
                 aiResponse, aggVars, importVars,
                 chat_sessions, sessions, currentSession, isLoading,
                 messageCharts, invocations>>

\* loadMessages resolves
LoadDone(c) ==
  /\ calls[c].pc = "awaitLoad"
  /\ \E ok \in BOOLEAN :
       messages' = IF ok
                     THEN messagesWithCharts(calls[c].closure.currentSession,
                                             NoMessageId, NoChart,
                                             calls[c].closure.messageCharts)
                     ELSE messages
  /\ calls' = [calls EXCEPT ![c].pc = "awaitTouch"]
  /\ UNCHANGED <<variant, envKey, table, chat_messages, nreq, pc, body,
                 isChartRequest, equipmentData, response, ioLog, httpResponse,
                 aiResponse, aggVars, importVars,
                 chat_sessions, sessions, currentSession, isLoading,
                 messageCharts, invocations>>

\* the update of the session's timestamp resolves; finally
TouchDone(c) ==
  /\ calls[c].pc = "awaitTouch"
  /\ isLoading' = Finally(isLoading)
  /\ calls' = [calls EXCEPT ![c].pc = "done"]
  /\ UNCHANGED <<chat_sessions, sessions, currentSession, messageCharts,
                 invocations, handlerVars, aggVars, importVars>>

\* startNewChat
StartNewChat ==
  /\ currentSession # NoSession
  /\ currentSession' = NoSession
  /\ messages' = <<>>
  /\ UNCHANGED <<variant, envKey, table, chat_messages, nreq, pc, body,
                 isChartRequest, equipmentData, response, ioLog, httpResponse,
                 aiResponse, aggVars, importVars,
                 chat_sessions, sessions, isLoading, messageCharts, calls,
                 invocations>>

\* ------------------------------------------ SpecClient: one useChat instance
\* mounted with no session selected, or with an existing one selected
InitClient ==
  /\ InitHandler /\ variant = "chat" /\ envKey = NoKey /\ table = <<>>
  /\ InitAggIdle /\ InitImportIdle
  /\ chat_sessions \in {<<>>, <<SessionIds[1]>>}
  /\ sessions = chat_sessions
  /\ currentSession \in {NoSession} \cup {chat_sessions[i] : i \in 1..Len(chat_sessions)}
  /\ isLoading = FALSE
  /\ messageCharts = <<>>
  /\ calls = <<>>
  /\ invocations = <<>>

\* the awaited operations settle
Settle ==
  \E c \in 1..Len(calls) :
    \/ CreateSessionDone(c)
    \/ EdgeFunction(c)
    \/ EdgeDone(c)
    \/ LatestDone(c)
    \/ ReloadDone(c)
    \/ LoadDone(c)
    \/ TouchDone(c)

NextClient ==
  \/ SendMessage
  \/ StartNewChat
  \/ \E c \in 1..Len(calls) : CreateSessionDone(c)
  \/ \E c \in 1..Len(calls) : EdgeFunction(c)
  \/ \E c \in 1..Len(calls) : EdgeDone(c)
  \/ \E c \in 1..Len(calls) : LatestDone(c)
  \/ \E c \in 1..Len(calls) : ReloadDone(c)
  \/ \E c \in 1..Len(calls) : LoadDone(c)
  \/ \E c \in 1..Len(calls) : TouchDone(c)

SpecClient == InitClient /\ [][NextClient]_vars

\* every promise the hook awaits is settled in the end
SpecClientFair == SpecClient /\ WF_vars(Settle)

\* ---------------------------------------------------- claims on sendMessage
InvocationsOf(c) == SelectSeq(invocations, LAMBDA i : i.call = c)

\* C26: a sendMessage made with no session selected, whose session creation
\* succeeds, has invoked the edge function exactly once, with its content
\* and the id of the session it created, by the time it returns.
C26_FirstMessageIsSent ==
  \A c \in 1..Len(calls) :
    (calls[c].pc = "done" /\ calls[c].created # NoSession)
      => InvocationsOf(c) = <<[call |-> c, message |-> calls[c].content,
                               sessionId |-> calls[c].created]>>

\* C27: at most one request to the edge function is in flight, and a
\* sendMessage made while an earlier one is still running sends no request
\* and creates no session.
C27_OneAtATime ==
  /\ Cardinality({c \in 1..Len(calls) : InFlight(c)}) <= 1
  /\ \A c \in 1..Len(calls) :
       calls[c].overlaps
         => /\ InvocationsOf(c) = <<>>
            /\ calls[c].created = NoSession
            /\ calls[c].pc # "awaitCreateSession"

\* C28: isLoading is false whenever no sendMessage is running, and whenever
\* it is true it becomes false again.
C28_LoadingEnds ==
  /\ []((\A c \in 1..Len(calls) : ~Running(c)) => ~isLoading)
  /\ (isLoading ~> ~isLoading)

C28_Witness ==
  /\ ~isLoading
  /\ \E c \in 1..Len(calls) :
       /\ ~Running(c)
       /\ InvocationsOf(c) # <<>>
       /\ calls[c].aiResponse.text.tpl = "clientDebug"
  /\ \E c \in 1..Len(calls) : calls[c].created # NoSession

\* C29: a chart is filed under the id of the assistant message that the
\* request returning it has stored, never under another request's message.
C29_ChartOnItsOwnMessage ==
  \A c \in 1..Len(calls) :
    <<c, "assistant">> \in DOMAIN messageCharts
      => messageCharts[<<c, "assistant">>] = calls[c].http.chart

====
